---------------------------- MODULE Spec2Model ----------------------------
(***************************************************************************)
(* The two transaction engines of the wallet application:                  *)
(*   sendAndConfirmTransaction  (lib/solana/transaction-helper,            *)
(*                               src/unnamed/part_002)                     *)
(*   sendTransactionWithRetry   (lib/solana/transaction-utility,           *)
(*                               src/unnamed/part_003)                     *)
(* One call of one engine is modelled as a state machine whose steps are   *)
(* the code between two awaits.  The ledger, the RPC node and the wallet   *)
(* are the environment: their answers are chosen nondeterministically.     *)
(***************************************************************************)
EXTENDS Integers, Sequences, FiniteSets, TLC

\* Largest maxRetries option the model explores (the option is any number).
MaxRetriesBound == 3

VARIABLES
    engine,        \* which function is running: "helper" | "utility"
    maxRetries,    \* options.maxRetries
    hasSigners,    \* signers.length > 0
    pc,            \* "loop" | "fetch" | "send" | "confirm" | "backoff" | "returned" | "thrown"
    attempt,       \* let attempt
    signature,     \* let signature ('' is 0)
    lastError,     \* let lastError (null is NoError)
    transaction,   \* the Transaction object
    win,           \* const { blockhash, lastValidBlockHeight } of the running attempt
    result,        \* what the call returned or threw
    fetched,       \* windows handed out by getLatestBlockhash, in order
    submitted,     \* the submission calls made, in order
    confirming,    \* confirmTransaction calls not yet settled (their strategies)
    timers,        \* attempts whose setTimeout(maxTimeout) is pending
    outcome,       \* how each attempt's try block ended, with the error caught and
                   \* the confirmation.value.err it was given
    delays,        \* the backoff delays awaited, in order
    reached,       \* ledger: attempts whose transaction reached the ledger
    landed,        \* ledger: attempts whose transaction was processed
    lapsed,        \* ledger: attempts whose validity window has lapsed
    toasts,        \* the loading toasts the engine created and has not dismissed
    account,       \* ledger: the associated token account of one (owner, mint)
    call,          \* the running calls that depend on that account
    hasWindow,              \* typeof window !== 'undefined'
    connectionInitialized,  \* let connectionInitialized
    connectionPool,         \* const connectionPool: Connection[]
    connectionCache,        \* const connectionCache: Record<string, Connection>
    timeouts,               \* the setTimeout callbacks not yet run (their endpoints)
    constructed,            \* every Connection constructed so far
    firstInit,              \* the arguments of the first initConnectionPool call
    gets,                   \* the getCachedConnection calls made and what they returned
    scheduled,              \* the number of setTimeout calls made
    warmed,                 \* how the preWarmConnection calls ended
    poolCalls,              \* the number of calls made from outside the module
    handler,        \* the form handler running: "create" | "send" | "mint"
    hpc,            \* where it is: "start" | "engine" | "poll" | "wait" | "ended"
    retries,        \* let retries of confirmTransactionWithExponentialBackoff
    confirmResult,  \* let confirmResult ("null": none yet)
    elapsed,        \* Date.now() - startTime
    waits,          \* the delays awaited between polls, in order
    ledgerTx,       \* ledger: the handler's transaction
    observed,       \* the confirmation the handler was given ("none": not any)
    txSignature,    \* the txSignature state of the form (0: null)
    history,        \* transactions of useTransactionStore
    report,         \* what the user is told: "none" | "success" | "warning" | "failure"
    nextId,         \* the id of the next transaction handed to addTransaction
    errArg,         \* the argument of a getErrorMessage call
    shown           \* what that call returned

vars == <<engine, maxRetries, hasSigners, pc, attempt, signature, lastError,
          transaction, win, result, fetched, submitted, confirming, timers,
          outcome, delays, reached, landed, lapsed, toasts, account, call,
          hasWindow, connectionInitialized, connectionPool, connectionCache,
          timeouts, constructed, firstInit, gets, scheduled, warmed, poolCalls,
          handler, hpc, retries, confirmResult, elapsed, waits, ledgerTx, observed,
          txSignature, history, report, nextId, errArg, shown>>

utilVars == <<nextId, errArg, shown>>

formVars == <<handler, hpc, retries, confirmResult, elapsed, waits, ledgerTx, observed,
              txSignature, history, report>>

ataVars == <<account, call>>

poolVars == <<hasWindow, connectionInitialized, connectionPool, connectionCache,
              timeouts, constructed, firstInit, gets, scheduled, warmed, poolCalls>>

engineVars == <<engine, maxRetries, hasSigners, pc, attempt, signature, lastError,
                transaction, win, result, fetched, submitted, confirming, timers,
                outcome, delays, reached, landed, lapsed, toasts>>

Attempts == 1..(MaxRetriesBound + 1)

Min(a, b) == IF a < b THEN a ELSE b

RECURSIVE Pow2(_)
Pow2(n) == IF n <= 0 THEN 1 ELSE 2 * Pow2(n - 1)

(***************************************************************************)
(* Error messages are sequences of words; String.prototype.includes is a   *)
(* case-sensitive search for a contiguous run of words.                    *)
(***************************************************************************)
Includes(msg, phrase) ==
    \E i \in 1..(Len(msg) - Len(phrase) + 1) :
        SubSeq(msg, i, i + Len(phrase) - 1) = phrase

MsgExpired == <<"Signature", "has", "expired:", "block", "height", "exceeded">>
MsgBlockhashNotFound == <<"Simulation", "failed:", "blockhash", "not", "found">>
MsgInvalidBlockhash == <<"invalid", "blockhash">>
MsgTokenAccountNotFound == <<"Token", "Account", "not", "found">>
MsgInsufficientFunds == <<"insufficient", "funds", "for", "fee">>
MsgAlreadyProcessed == <<"This", "transaction", "has", "already", "been", "processed">>
MsgUserRejected == <<"User", "rejected", "the", "request">>
MsgNetwork == <<"failed", "to", "fetch">>
MsgTimeout == <<"Transaction", "confirmation", "timeout">>
MsgUnknown == <<"Transaction", "failed", "for", "unknown", "reason">>

\* new Error(`Transaction confirmed but failed: ${JSON.stringify(err)}`)
MsgConfirmedButFailed(payload) ==
    <<"Transaction", "confirmed", "but", "failed:", payload>>

\* What the environment can answer at each call site.
FetchErrors == {MsgNetwork}
SendErrors(e) ==
    {MsgBlockhashNotFound, MsgInvalidBlockhash, MsgInsufficientFunds,
     MsgTokenAccountNotFound, MsgAlreadyProcessed}
        \cup (IF e = "utility" THEN {MsgUserRejected} ELSE {})
ConfirmErrors == {MsgExpired, MsgNetwork, MsgAlreadyProcessed}
\* confirmation.value.err: null, or the ledger's TransactionError
OnChainErrors == {"InstructionError", "InsufficientFundsForFee"}

\* A loading toast: the one both engines keep as loadingToast, and those made
\* in attempt a ("approve", "confirm", "retry").
Toast(kind, a) == [kind |-> kind, att |-> a]
LoadingToast == Toast("loading", 0)

NoError == [msg |-> <<>>, att |-> 0, signature |-> 0]
Err(m, a, s) == [msg |-> m, att |-> a, signature |-> s]

NoWindow == [blockhash |-> 0, lastValidBlockHeight |-> 0]
\* An attempt's try block: still running ("none"), or ended by the return
\* ("success"), by the timer's rejection ("timeout") or by another error.
NoOutcome == [how |-> "none", error |-> NoError, conf |-> "none"]
Ended(how, err, conf) == [how |-> how, error |-> err, conf |-> conf]

NoResult == [kind |-> "none", signature |-> 0, error |-> NoError]

(***************************************************************************)
(* The Transaction object: the fields the engines write.  signedOver is    *)
(* the blockhash the held signatures were made over (0: no signature).     *)
(***************************************************************************)
NewTransaction == [recentBlockhash |-> 0, lastValidBlockHeight |-> 0, signedOver |-> 0]

\* transaction.serialize(): the wire format holds the signatures and the
\* message (with its recentBlockhash); lastValidBlockHeight is not part of it.
Serialize(tx) == [recentBlockhash |-> tx.recentBlockhash, signedOver |-> tx.signedOver]

\* Transaction.from(wire)
TransactionFrom(wire) ==
    [recentBlockhash |-> wire.recentBlockhash,
     lastValidBlockHeight |-> 0,
     signedOver |-> wire.signedOver]

\* partialSign / sign / the wallet's signature: made over the message as it is now
SignTx(tx) == [tx EXCEPT !.signedOver = tx.recentBlockhash]

\* The signature of a signed transaction is a function of its message.
SigOf(tx) == tx.signedOver

\* Variant: the signers sign before the new blockhash is attached.
PrepareHelperSignFirst(tx, w) ==
    LET t0 == SignTx([tx EXCEPT !.lastValidBlockHeight = 0])
    IN  [t0 EXCEPT !.recentBlockhash = w.blockhash]

\* part_002 lines 51-69
PrepareHelper(tx, w) ==
    LET t1 == [tx EXCEPT !.recentBlockhash = w.blockhash,
                         !.lastValidBlockHeight = w.lastValidBlockHeight]
        t2 == [t1 EXCEPT !.signedOver = 0]
        t3 == TransactionFrom(Serialize(t2))
    IN  SignTx(t3)

\* part_003 lines 63-72, and the wallet's signature inside wallet.sendTransaction
PrepareUtility(tx, w, signers) ==
    LET t1 == [tx EXCEPT !.recentBlockhash = w.blockhash,
                         !.lastValidBlockHeight = w.lastValidBlockHeight]
        t2 == IF signers THEN SignTx(t1) ELSE t1
    IN  SignTx(t2)

Prepare(e, tx, w, signers) ==
    IF e = "helper" THEN PrepareHelper(tx, w) ELSE PrepareUtility(tx, w, signers)

(***************************************************************************)
(* The retry decision of the catch blocks.                                 *)
(***************************************************************************)
\* Variant: the confirmation timeout is classified as retryable too.
IsBlockhashErrorOrTimeout(msg) ==
    \/ Includes(msg, <<"block", "height", "exceeded">>)
    \/ Includes(msg, <<"blockhash", "not", "found">>)
    \/ Includes(msg, <<"invalid", "blockhash">>)
    \/ Includes(msg, <<"timeout">>)

\* Variant: only the expiry message is recognised.
IsBlockhashErrorNarrow(msg) == Includes(msg, <<"block", "height", "exceeded">>)

\* Variant: the second phrase is cut down to 'not found'.
IsBlockhashErrorAnyNotFound(msg) ==
    \/ Includes(msg, <<"block", "height", "exceeded">>)
    \/ Includes(msg, <<"not", "found">>)
    \/ Includes(msg, <<"invalid", "blockhash">>)

IsBlockhashError(msg) ==
    \/ Includes(msg, <<"block", "height", "exceeded">>)
    \/ Includes(msg, <<"blockhash", "not", "found">>)
    \/ Includes(msg, <<"invalid", "blockhash">>)

\* Variant: the loop bound is off by one.
LoopCondInclusive(att, max) == att <= max

LoopCond(att, max) == att < max

\* Variant: the retry branch does not look at the kind of error.
CatchBranchHelperRetryAll(msg, att, max) ==
    IF att < max THEN "retry"
    ELSE IF Includes(msg, <<"Token", "Account", "not", "found">>) THEN "tokenAccount"
    ELSE IF Includes(msg, <<"insufficient", "funds">>) THEN "insufficientFunds"
    ELSE "exhausted"

CatchBranchHelper(msg, att, max) ==
    IF IsBlockhashError(msg) /\ att < max THEN "retry"
    ELSE IF Includes(msg, <<"Token", "Account", "not", "found">>) THEN "tokenAccount"
    ELSE IF Includes(msg, <<"insufficient", "funds">>) THEN "insufficientFunds"
    ELSE IF att >= max THEN "exhausted"
    ELSE "other"

\* Variant: every error is retried while attempts remain.
CatchBranchUtilityRetryAll(msg, att, max) ==
    IF att < max THEN "retry" ELSE "giveUp"

CatchBranchUtility(msg, att, max) ==
    IF att < max /\ IsBlockhashError(msg) THEN "retry" ELSE "giveUp"

CatchBranch(e, msg, att, max) ==
    IF e = "helper" THEN CatchBranchHelper(msg, att, max)
    ELSE CatchBranchUtility(msg, att, max)

\* Variant: the delay is not capped.
BackoffDelayUncapped(att) == 1000 * Pow2(att - 1)

BackoffDelay(att) == Min(1000 * Pow2(att - 1), 8000)

\* The value a throw hands to the caller: the Error object and nothing else.
Thrown(err) == [kind |-> "thrown", signature |-> err.signature, error |-> err]
Returned(sig) == [kind |-> "returned", signature |-> sig, error |-> NoError]

\* Variant: lastError keeps the first error caught, and that one is thrown.
CatchKeepFirst(err, how, conf) ==
    LET kept == IF lastError = NoError THEN err ELSE lastError
    IN  /\ lastError' = kept
        /\ outcome' = [outcome EXCEPT ![attempt] = Ended(how, err, conf)]
        /\ IF CatchBranch(engine, err.msg, attempt, maxRetries) = "retry"
           THEN /\ pc' = "backoff"
                /\ toasts' = (toasts \ {LoadingToast}) \cup {Toast("retry", attempt)}
                /\ delays' = Append(delays, BackoffDelay(attempt))
                /\ result' = result
           ELSE /\ pc' = "thrown"
                /\ toasts' = toasts \ {LoadingToast}
                /\ delays' = delays
                /\ result' = Thrown(kept)

\* catch (error) { ... }: part_002 lines 127-167, part_003 lines 134-159
Catch(err, how, conf) ==
    /\ lastError' = err
    /\ outcome' = [outcome EXCEPT ![attempt] = Ended(how, err, conf)]
    /\ IF CatchBranch(engine, err.msg, attempt, maxRetries) = "retry"
       THEN /\ pc' = "backoff"
            /\ toasts' = (toasts \ {LoadingToast}) \cup {Toast("retry", attempt)}
            /\ delays' = Append(delays, BackoffDelay(attempt))
            /\ result' = result
       ELSE /\ pc' = "thrown"
            /\ toasts' = toasts \ {LoadingToast}
            /\ delays' = delays
            /\ result' = Thrown(err)

(***************************************************************************)
(* The associated token account of one (owner, mint), and the calls that   *)
(* depend on it: getOrCreateAssociatedTokenAccount, sendToken, mintToken.  *)
(***************************************************************************)
NumCallers == 2
Callers == 1..NumCallers
Flows == {"getOrCreate", "sendToken", "mintToken"}

\* maxRetries: 3 in the options getOrCreateAssociatedTokenAccount passes
CreateMaxRetries == 3
\* maxRetries: 3 in the options sendToken passes
SendTokenMaxRetries == 3

\* The submissions a flow can make: the engines' attempts; mintToken calls the
\* wallet's sendTransaction once.
FlowMaxRetries(f) ==
    IF f = "getOrCreate" THEN CreateMaxRetries
    ELSE IF f = "sendToken" THEN SendTokenMaxRetries
    ELSE 1

FlowEngine(f) == IF f = "getOrCreate" THEN "helper" ELSE "utility"

Slots == 1..(IF CreateMaxRetries > SendTokenMaxRetries
             THEN CreateMaxRetries ELSE SendTokenMaxRetries)

CreateIx == "createAssociatedTokenAccount"

\* What the ledger answers to a creation instruction for an account that exists:
\* at preflight, a simulation error whose text depends on the program deployed
\* (the system program's log line, or the program's IllegalOwner error) ...
MsgAlreadyInUse ==
    <<"Transaction", "simulation", "failed:", "Allocate:", "account",
      "already", "in", "use">>
MsgIllegalOwner ==
    <<"Transaction", "simulation", "failed:", "Provided", "owner", "is", "not",
      "allowed">>
PreflightErrors == {MsgAlreadyInUse, MsgIllegalOwner}
\* ... and, once processed, the confirmation's value.err
AccountExistsPayload == "InstructionError"
\* The errors a caller is handed because the account exists.
AccountExistsErrors == PreflightErrors \cup {MsgConfirmedButFailed(AccountExistsPayload)}

\* throw new Error(`Transaction confirmation timed out after ${timeoutMs}ms`)
MsgTimedOut == <<"Transaction", "confirmation", "timed", "out", "after", "90000ms">>

NoAccount == [exists |-> FALSE, creations |-> 0]

NewCall(f) ==
    [flow |-> f, pc |-> "read", saw |-> "unread", instructions |-> <<>>,
     attempt |-> 0, tx |-> [a \in Slots |-> "none"], result |-> "none", error |-> <<>>]

\* Variant: the creation instruction is added after the flow's own instruction.
InstructionsCreateLast(f, present) ==
    LET own == IF f = "sendToken" THEN <<"transfer">>
               ELSE IF f = "mintToken" THEN <<"mintTo">>
               ELSE <<>>
    IN  own \o (IF present THEN <<>> ELSE <<CreateIx>>)

\* The transaction each flow builds from what the existence read reported.
Instructions(f, present) ==
    LET own == IF f = "sendToken" THEN <<"transfer">>
               ELSE IF f = "mintToken" THEN <<"mintTo">>
               ELSE <<>>
    IN  (IF present THEN <<>> ELSE <<CreateIx>>) \o own

HasCreate(ixs) == \E i \in 1..Len(ixs) : ixs[i] = CreateIx

\* catch (error) of getOrCreateAssociatedTokenAccount
OuterCatch(r, msg) ==
    IF Includes(msg, <<"already", "in", "use">>)
    THEN [r EXCEPT !.pc = "returned", !.result = "address", !.error = msg]
    ELSE [r EXCEPT !.pc = "thrown", !.result = "error", !.error = msg]

\* An error caught inside the flow's submission: the engine retries it or throws
\* it to the flow, which handles it.
AfterError(r, msg) ==
    IF CatchBranch(FlowEngine(r.flow), msg, r.attempt, FlowMaxRetries(r.flow)) = "retry"
    THEN [r EXCEPT !.attempt = r.attempt + 1, !.pc = "send"]
    ELSE IF r.flow = "getOrCreate" THEN OuterCatch(r, msg)
    ELSE [r EXCEPT !.pc = "thrown", !.result = "error", !.error = msg]

\* No call depends on the token account.
AtaIdle ==
    /\ account = NoAccount
    /\ call = [c \in Callers |-> NewCall("getOrCreate")]

(***************************************************************************)
(* The connection pool and cache of connection-helper.ts.                  *)
(***************************************************************************)
MaxPoolCalls == 4
MaxPoolSize == 2

\* initConnectionPool(endpoint, size = 2)
DefaultPoolSize == 2

\* new Connection(endpoint, ...) throws a TypeError for an endpoint that is no
\* http: or https: URL.
Endpoints == {"https://devnet", "https://mainnet", "ftp://node"}
ValidEndpoint(e) == e \in {"https://devnet", "https://mainnet"}
Commitments == {"processed", "confirmed"}
Sizes == 0..MaxPoolSize

NoConn == [endpoint |-> "", commitment |-> "", id |-> 0]
Conn(e, c, i) == [endpoint |-> e, commitment |-> c, id |-> i]

\* `${endpoint}-${commitment}`: no Commitment holds a '-', so the text after the
\* last '-' is the commitment and the key names one (endpoint, commitment).
CacheKey(e, c) == <<e, "-", c>>
CacheKeys == {CacheKey(e, c) : e \in Endpoints, c \in Commitments}

NoInit == [endpoint |-> "", size |-> 0 - 1]

\* The module as it is loaded: nothing initialised, nothing cached.
PoolLoaded ==
    /\ connectionInitialized = FALSE
    /\ connectionPool = <<>>
    /\ connectionCache = [k \in CacheKeys |-> NoConn]
    /\ timeouts = <<>>
    /\ constructed = {}
    /\ firstInit = NoInit
    /\ gets = {}
    /\ scheduled = 0
    /\ warmed = {}
    /\ poolCalls = 0

PoolIdle == hasWindow = TRUE /\ PoolLoaded

(***************************************************************************)
(* The form handlers of token-creator.tsx: createToken, sendToken and      *)
(* mintToken, from the submission of their transaction on.                 *)
(***************************************************************************)
Handlers == {"create", "send", "mint"}

\* Times are counted in 1/64 ms: 1000 * 1.5^n is a whole number of these for
\* every n at which it is below 10000.
TimeScale == 64

\* confirmTransactionWithExponentialBackoff(connection, signature, 90000)
PollTimeoutMs == 90000

\* How long one connection.confirmTransaction call can take before it settles.
CallDurationsMs == {1000, 30000}

\* [transaction, ...state.transactions].slice(0, 50)
HistoryCap == 50

\* The signature the submission call resolved with.
FormSig == 1

RECURSIVE Pow3(_)
Pow3(n) == IF n <= 0 THEN 1 ELSE 3 * Pow3(n - 1)

\* Variant: the delay doubles.
PollDelayDoubling(n) ==
    IF Pow2(n) >= 10 THEN 10000 * TimeScale ELSE 1000 * TimeScale * Pow2(n)

\* Math.min(1000 * Math.pow(1.5, retries), 10000), where 1.5^n = 3^n / 2^n
PollDelay(n) ==
    IF Pow3(n) >= 10 * Pow2(n)
    THEN 10000 * TimeScale
    ELSE (1000 * TimeScale * Pow3(n)) \div Pow2(n)

\* Variant: the new entry is put last.
AddTransactionAppend(h, rec) ==
    LET all == h \o <<rec>>
    IN  SubSeq(all, 1, Min(Len(all), HistoryCap))

\* addTransaction of useTransactionStore
AddTransaction(h, rec) ==
    LET all == <<rec>> \o h
    IN  SubSeq(all, 1, Min(Len(all), HistoryCap))

\* catch (err) of mintToken's confirmation: what the user is told and the
\* txSignature state.
MintCatch(msg) ==
    IF Includes(msg, <<"timeout">>)
    THEN [report |-> "warning", txSignature |-> FormSig]
    ELSE [report |-> "failure", txSignature |-> 0]

FormLoaded ==
    /\ hpc = "start"
    /\ retries = 0
    /\ confirmResult = "null"
    /\ elapsed = 0
    /\ waits = <<>>
    /\ ledgerTx = "none"
    /\ observed = "none"
    /\ txSignature = 0
    /\ history = <<>>
    /\ report = "none"

\* No form handler is running.
FormIdle == handler = "create" /\ FormLoaded

(***************************************************************************)
(* getErrorMessage of part_003 and the entries of useTransactionStore.     *)
(***************************************************************************)
MaxAdds == 52

\* An entry handed to addTransaction.
StoreRecord(id) == [id |-> id, status |-> "success", type |-> "create"]

\* The argument of getErrorMessage: null, or an object with a message.
NullError == [isNull |-> TRUE, message |-> <<>>]
ErrorOf(msg) == [isNull |-> FALSE, message |-> msg]

\* The word groups the tested messages are made of.
Phrases ==
    { <<"block", "height", "exceeded">>,
      <<"blockhash", "not", "found">>,
      <<"insufficient", "funds">>,
      <<"rejected">>,
      <<"user", "rejected">>,
      <<"User", "rejected">>,
      <<"already", "in", "use">>,
      <<"invalid", "account", "owner">>,
      <<"timeout">>,
      <<"Timeout">>,
      <<"failed", "to", "fetch">> }

Messages == {<<>>} \cup Phrases \cup {p \o q : p, q \in Phrases}

ErrorArgs == {NullError} \cup {ErrorOf(m) : m \in Messages}

\* String.prototype.toLowerCase, on the words of Phrases
Lower(w) ==
    CASE w = "Timeout" -> "timeout"
      [] w = "User" -> "user"
      [] OTHER -> w

toLowerCase(msg) == [i \in 1..Len(msg) |-> Lower(msg[i])]

\* A fixed text, or the generic text followed by the message.  The messages
\* of Messages are shorter than 100 characters, so slice(0, 100) keeps them
\* whole and no '...' follows.
Text(t) == [text |-> t, detail |-> <<>>]
GenericText(msg) == [text |-> "Transaction error: ", detail |-> msg]
NotShown == Text("")

getErrorMessage(error) ==
    IF error.isNull THEN Text("Unknown error")
    ELSE
    LET message == IF error.message # <<>> THEN error.message ELSE <<"Error">>
    IN  IF Includes(message, <<"block", "height", "exceeded">>)
        THEN Text("Transaction took too long to confirm. Please try again.")
        ELSE IF Includes(message, <<"blockhash", "not", "found">>)
        THEN Text("Transaction expired. Please try again.")
        ELSE IF Includes(message, <<"insufficient", "funds">>)
        THEN Text("Insufficient funds for transaction.")
        ELSE IF Includes(message, <<"rejected">>)
        THEN Text("Transaction rejected by user.")
        ELSE IF Includes(message, <<"user", "rejected">>)
        THEN Text("You declined the transaction. Please try again.")
        ELSE IF Includes(message, <<"already", "in", "use">>)
        THEN Text("This transaction was already processed.")
        ELSE IF Includes(message, <<"invalid", "account", "owner">>)
        THEN Text("Invalid account owner.")
        ELSE IF Includes(toLowerCase(message), <<"timeout">>)
        THEN Text("Network timeout. Solana may be congested, please try again.")
        ELSE GenericText(message)

\* No getErrorMessage call was made and no entry was handed to the store.
UtilIdle ==
    /\ nextId = 1
    /\ errArg = NullError
    /\ shown = NotShown

Init ==
    /\ engine \in {"helper", "utility"}
    /\ maxRetries \in 0..MaxRetriesBound
    /\ hasSigners \in IF engine = "helper" THEN {TRUE} ELSE BOOLEAN
    /\ pc = "loop"
    /\ attempt = 0
    /\ signature = 0
    /\ lastError = NoError
    /\ transaction = NewTransaction
    /\ win = NoWindow
    /\ result = NoResult
    /\ fetched = <<>>
    /\ submitted = <<>>
    /\ confirming = {}
    /\ timers = {}
    /\ outcome = [a \in Attempts |-> NoOutcome]
    /\ delays = <<>>
    /\ reached = {}
    /\ landed = {}
    /\ lapsed = {}
    /\ toasts = {LoadingToast}
    /\ AtaIdle
    /\ PoolIdle
    /\ FormIdle
    /\ UtilIdle

\* while (attempt < maxRetries) { try { attempt++; ... await getLatestBlockhash
StartAttempt ==
    /\ pc = "loop"
    /\ LoopCond(attempt, maxRetries)
    /\ attempt' = attempt + 1
    /\ pc' = "fetch"
    /\ UNCHANGED <<ataVars, poolVars, formVars, utilVars, toasts, engine, maxRetries, hasSigners, signature, lastError, transaction,
                   win, result, fetched, submitted, confirming, timers, outcome,
                   delays, reached, landed, lapsed>>

\* the loop ends: throw lastError || new Error('Transaction failed for unknown reason')
ExitLoop ==
    /\ pc = "loop"
    /\ ~LoopCond(attempt, maxRetries)
    /\ pc' = "thrown"
    /\ result' = Thrown(IF lastError # NoError THEN lastError
                        ELSE Err(MsgUnknown, attempt, 0))
    /\ toasts' = toasts \ {LoadingToast}
    /\ UNCHANGED <<ataVars, poolVars, formVars, utilVars, engine, maxRetries, hasSigners, attempt, signature, lastError,
                   transaction, win, fetched, submitted, confirming, timers, outcome,
                   delays, reached, landed, lapsed>>

\* getLatestBlockhash resolves; the transaction is stamped and signed and the
\* submission call is made.
FetchResolve ==
    /\ pc = "fetch"
    /\ LET w == [blockhash |-> Len(fetched) + 1,
                 lastValidBlockHeight |-> Len(fetched) + 151]
           tx == Prepare(engine, transaction, w, hasSigners)
       IN  /\ win' = w
           /\ fetched' = Append(fetched, [att |-> attempt, window |-> w])
           /\ transaction' = tx
           /\ submitted' = Append(submitted, [att |-> attempt, tx |-> tx])
    /\ pc' = "send"
    /\ toasts' = IF engine = "utility"
                 THEN (toasts \ {LoadingToast}) \cup {Toast("approve", attempt)}
                 ELSE toasts
    /\ UNCHANGED <<ataVars, poolVars, formVars, utilVars, engine, maxRetries, hasSigners, attempt, signature, lastError,
                   result, confirming, timers, outcome, delays, reached, landed, lapsed>>

\* getLatestBlockhash rejects
FetchReject ==
    /\ pc = "fetch"
    /\ \E m \in FetchErrors : Catch(Err(m, attempt, 0), "error", "none")
    /\ UNCHANGED <<ataVars, poolVars, formVars, utilVars, engine, maxRetries, hasSigners, attempt, signature, transaction,
                   win, fetched, submitted, confirming, timers, reached, landed, lapsed>>

\* Variant: the signature of the first submission is kept.
SendResolveKeepFirstSignature ==
    /\ pc = "send"
    /\ signature' = IF signature = 0 THEN SigOf(transaction) ELSE signature
    /\ reached' = reached \cup {attempt}
    /\ timers' = timers \cup {attempt}
    /\ confirming' = confirming \cup
           {[att |-> attempt, signature |-> SigOf(transaction),
             blockhash |-> win.blockhash,
             lastValidBlockHeight |-> win.lastValidBlockHeight]}
    /\ pc' = "confirm"
    /\ toasts' = (toasts \ {LoadingToast}) \cup {Toast("confirm", attempt)}
    /\ UNCHANGED <<ataVars, poolVars, formVars, utilVars, engine, maxRetries, hasSigners, attempt, lastError, transaction,
                   win, result, fetched, submitted, outcome, delays, landed, lapsed>>

\* Variant: the confirmation is awaited without a timer.
SendResolveNoTimer ==
    /\ pc = "send"
    /\ signature' = SigOf(transaction)
    /\ reached' = reached \cup {attempt}
    /\ timers' = timers
    /\ confirming' = confirming \cup
           {[att |-> attempt, signature |-> SigOf(transaction),
             blockhash |-> win.blockhash,
             lastValidBlockHeight |-> win.lastValidBlockHeight]}
    /\ pc' = "confirm"
    /\ toasts' = (toasts \ {LoadingToast}) \cup {Toast("confirm", attempt)}
    /\ UNCHANGED <<ataVars, poolVars, formVars, utilVars, engine, maxRetries, hasSigners, attempt, lastError, transaction,
                   win, result, fetched, submitted, outcome, delays, landed, lapsed>>

\* sendRawTransaction / wallet.sendTransaction resolves with the signature; the
\* confirmation promise is built: the timer is set and confirmTransaction called.
SendResolve ==
    /\ pc = "send"
    /\ signature' = SigOf(transaction)
    /\ reached' = reached \cup {attempt}
    /\ timers' = timers \cup {attempt}
    /\ confirming' = confirming \cup
           {[att |-> attempt, signature |-> SigOf(transaction),
             blockhash |-> win.blockhash,
             lastValidBlockHeight |-> win.lastValidBlockHeight]}
    /\ pc' = "confirm"
    /\ toasts' = (toasts \ {LoadingToast}) \cup {Toast("confirm", attempt)}
    /\ UNCHANGED <<ataVars, poolVars, formVars, utilVars, engine, maxRetries, hasSigners, attempt, lastError, transaction,
                   win, result, fetched, submitted, outcome, delays, landed, lapsed>>

\* the submission call rejects: the transaction did not reach the ledger
SendReject ==
    /\ pc = "send"
    /\ \E m \in SendErrors(engine) : Catch(Err(m, attempt, 0), "error", "none")
    /\ UNCHANGED <<ataVars, poolVars, formVars, utilVars, engine, maxRetries, hasSigners, attempt, signature, transaction,
                   win, fetched, submitted, confirming, timers, reached, landed, lapsed>>

\* The submitted transaction is processed by the ledger, inside its window.
Land ==
    /\ \E a \in reached \ (landed \cup lapsed) : landed' = landed \cup {a}
    /\ UNCHANGED <<ataVars, poolVars, formVars, utilVars, toasts, engine, maxRetries, hasSigners, pc, attempt, signature, lastError,
                   transaction, win, result, fetched, submitted, confirming, timers,
                   outcome, delays, reached, lapsed>>

\* The ledger's height passes the lastValidBlockHeight of a submitted transaction.
Lapse ==
    /\ \E a \in reached \ lapsed : lapsed' = lapsed \cup {a}
    /\ UNCHANGED <<ataVars, poolVars, formVars, utilVars, toasts, engine, maxRetries, hasSigners, pc, attempt, signature, lastError,
                   transaction, win, result, fetched, submitted, confirming, timers,
                   outcome, delays, reached, landed>>

\* The confirmation promise of call c is the one the engine is awaiting.
Awaited(c) == pc = "confirm" /\ c.att = attempt

\* confirmTransaction resolves with value.err == null before the timer fired:
\* clearTimeout, resolve(true), and the engine returns the signature.
ConfirmOk ==
    /\ \E c \in confirming :
        /\ Awaited(c)
        /\ c.att \in landed
        /\ confirming' = confirming \ {c}
        /\ timers' = timers \ {c.att}
        /\ outcome' = [outcome EXCEPT ![attempt] = Ended("success", NoError, "null")]
        /\ pc' = "returned"
        /\ result' = Returned(signature)
    /\ toasts' = toasts \ {Toast("confirm", attempt)}
    /\ UNCHANGED <<ataVars, poolVars, formVars, utilVars, engine, maxRetries, hasSigners, attempt, signature, lastError,
                   transaction, win, fetched, submitted, delays, reached, landed, lapsed>>

\* Variant: confirmation.value.err is not looked at.
ConfirmFailedOnChainIgnored ==
    /\ \E c \in confirming, p \in OnChainErrors :
        /\ Awaited(c)
        /\ c.att \in landed
        /\ confirming' = confirming \ {c}
        /\ timers' = timers \ {c.att}
        /\ outcome' = [outcome EXCEPT ![attempt] = Ended("success", NoError, p)]
        /\ pc' = "returned"
        /\ result' = Returned(signature)
    /\ toasts' = toasts \ {Toast("confirm", attempt)}
    /\ UNCHANGED <<ataVars, poolVars, formVars, utilVars, engine, maxRetries, hasSigners, attempt, signature, lastError,
                   transaction, win, fetched, submitted, delays, reached, landed, lapsed>>

\* confirmTransaction resolves with an error payload before the timer fired:
\* clearTimeout, reject(new Error('Transaction confirmed but failed: ...')).
ConfirmFailedOnChain ==
    /\ \E c \in confirming, p \in OnChainErrors :
        /\ Awaited(c)
        /\ c.att \in landed
        /\ confirming' = confirming \ {c}
        /\ timers' = timers \ {c.att}
        /\ Catch(Err(MsgConfirmedButFailed(p), attempt, 0), "error", p)
    /\ UNCHANGED <<ataVars, poolVars, formVars, utilVars, engine, maxRetries, hasSigners, attempt, signature, transaction,
                   win, fetched, submitted, reached, landed, lapsed>>

\* Variant: the catch of the confirmation watcher does not clear the timer.
ConfirmRejectNoClear ==
    /\ \E c \in confirming, m \in ConfirmErrors :
        /\ Awaited(c)
        /\ m = MsgExpired => c.att \in lapsed
        /\ confirming' = confirming \ {c}
        /\ timers' = timers
        /\ Catch(Err(m, attempt, IF m = MsgExpired THEN c.signature ELSE 0), "error", "none")
    /\ UNCHANGED <<ataVars, poolVars, formVars, utilVars, engine, maxRetries, hasSigners, attempt, signature, transaction,
                   win, fetched, submitted, reached, landed, lapsed>>

\* confirmTransaction throws before the timer fired: clearTimeout, reject(error).
\* The expiry error is thrown once the window has lapsed and names the signature.
ConfirmReject ==
    /\ \E c \in confirming, m \in ConfirmErrors :
        /\ Awaited(c)
        /\ m = MsgExpired => c.att \in lapsed
        /\ confirming' = confirming \ {c}
        /\ timers' = timers \ {c.att}
        /\ Catch(Err(m, attempt, IF m = MsgExpired THEN c.signature ELSE 0), "error", "none")
    /\ UNCHANGED <<ataVars, poolVars, formVars, utilVars, engine, maxRetries, hasSigners, attempt, signature, transaction,
                   win, fetched, submitted, reached, landed, lapsed>>

\* setTimeout fires first: reject(new Error('Transaction confirmation timeout')).
\* The confirmTransaction call is not cancelled.
TimerFire ==
    /\ \E a \in timers :
        /\ timers' = timers \ {a}
        /\ IF pc = "confirm" /\ a = attempt
           THEN Catch(Err(MsgTimeout, attempt, 0), "timeout", "none")
           ELSE UNCHANGED <<pc, lastError, outcome, delays, result, toasts>>
    /\ UNCHANGED <<ataVars, poolVars, formVars, utilVars, engine, maxRetries, hasSigners, attempt, signature, transaction,
                   win, fetched, submitted, confirming, reached, landed, lapsed>>

\* Variant: the watcher is a callback that runs the failure handling whenever
\* the confirmation arrives, also after the timer has rejected the promise.
LateConfirmHandled ==
    /\ \E c \in confirming :
        /\ ~Awaited(c)
        /\ confirming' = confirming \ {c}
        /\ timers' = timers \ {c.att}
        /\ Catch(Err(MsgExpired, attempt, c.signature), "error", "none")
    /\ UNCHANGED <<ataVars, poolVars, formVars, utilVars, engine, maxRetries, hasSigners, attempt, signature, transaction,
                   win, fetched, submitted, reached, landed, lapsed>>

\* A confirmTransaction call settles after its promise was rejected by the timer:
\* clearTimeout and resolve/reject have no effect.
LateConfirm ==
    /\ \E c \in confirming :
        /\ ~Awaited(c)
        /\ confirming' = confirming \ {c}
        /\ timers' = timers \ {c.att}
    /\ UNCHANGED <<ataVars, poolVars, formVars, utilVars, toasts, engine, maxRetries, hasSigners, pc, attempt, signature, lastError,
                   transaction, win, result, fetched, submitted, outcome, delays,
                   reached, landed, lapsed>>

\* await new Promise(resolve => setTimeout(resolve, delay)) is over
BackoffDone ==
    /\ pc = "backoff"
    /\ pc' = "loop"
    /\ UNCHANGED <<ataVars, poolVars, formVars, utilVars, toasts, engine, maxRetries, hasSigners, attempt, signature, lastError,
                   transaction, win, result, fetched, submitted, confirming, timers,
                   outcome, delays, reached, landed, lapsed>>

EngineStep ==
    \/ StartAttempt
    \/ ExitLoop
    \/ FetchResolve
    \/ FetchReject
    \/ SendResolve
    \/ SendReject
    \/ ConfirmOk
    \/ ConfirmFailedOnChain
    \/ ConfirmReject
    \/ TimerFire
    \/ LateConfirm
    \/ BackoffDone

Next ==
    \/ EngineStep
    \/ Land
    \/ Lapse

Spec == Init /\ [][Next]_vars

\* Every pending call and timer eventually returns or fires.
FairSpec == Spec /\ WF_vars(EngineStep)

\* Only the timers are sure to fire: confirmTransaction may never settle.
TimerFairSpec == Spec /\ WF_vars(TimerFire)

\* Calls with enough attempts for the backoff delay to reach its cap.
BackoffRetries == 6

BackoffInit ==
    /\ engine \in {"helper", "utility"}
    /\ maxRetries \in {0, BackoffRetries}
    /\ hasSigners = TRUE
    /\ pc = "loop"
    /\ attempt = 0
    /\ signature = 0
    /\ lastError = NoError
    /\ transaction = NewTransaction
    /\ win = NoWindow
    /\ result = NoResult
    /\ fetched = <<>>
    /\ submitted = <<>>
    /\ confirming = {}
    /\ timers = {}
    /\ outcome = [a \in 1..(BackoffRetries + 1) |-> NoOutcome]
    /\ delays = <<>>
    /\ reached = {}
    /\ landed = {}
    /\ lapsed = {}
    /\ toasts = {LoadingToast}
    /\ AtaIdle
    /\ PoolIdle
    /\ FormIdle
    /\ UtilIdle

BackoffSpec == BackoffInit /\ [][Next]_vars

(***************************************************************************)
(* The flows that depend on the token account.                             *)
(***************************************************************************)
\* Callers are interchangeable, so the calls are listed in this order.  The
\* forms of sendToken and mintToken are disabled while their handler runs
\* (disabled={isLoading}): one call of each at a time.
FlowRank(f) == IF f = "getOrCreate" THEN 1 ELSE IF f = "sendToken" THEN 2 ELSE 3

AtaInit ==
    /\ PoolIdle
    /\ FormIdle
    /\ UtilIdle
    /\ account \in {NoAccount, [exists |-> TRUE, creations |-> 0]}
    /\ call \in [Callers -> {NewCall(f) : f \in Flows}]
    /\ \A c, d \in Callers : c < d =>
            \/ FlowRank(call[c].flow) < FlowRank(call[d].flow)
            \/ call[c].flow = "getOrCreate" /\ call[d].flow = "getOrCreate"
    /\ engine = "helper"
    /\ maxRetries = 0
    /\ hasSigners = TRUE
    /\ pc = "loop"
    /\ attempt = 0
    /\ signature = 0
    /\ lastError = NoError
    /\ transaction = NewTransaction
    /\ win = NoWindow
    /\ result = NoResult
    /\ fetched = <<>>
    /\ submitted = <<>>
    /\ confirming = {}
    /\ timers = {}
    /\ outcome = [a \in Attempts |-> NoOutcome]
    /\ delays = <<>>
    /\ reached = {}
    /\ landed = {}
    /\ lapsed = {}
    /\ toasts = {}

\* getAccountInfo resolves with the account as the ledger has it; the flow builds
\* its transaction.  getOrCreateAssociatedTokenAccount returns the address when
\* the account is there.
AtaRead(c) ==
    LET r == call[c]
        ixs == Instructions(r.flow, account.exists)
        r1 == [r EXCEPT !.saw = IF account.exists THEN "present" ELSE "absent",
                        !.instructions = ixs]
    IN  /\ r.pc = "read"
        /\ call' = [call EXCEPT ![c] =
               IF ixs = <<>>
               THEN [r1 EXCEPT !.pc = "returned", !.result = "address"]
               ELSE [r1 EXCEPT !.pc = "send", !.attempt = 1]]
        /\ UNCHANGED <<account, engineVars, poolVars, formVars, utilVars>>

\* Variant: every flow throws the read error.
AtaReadRejectThrows(c) ==
    LET r == call[c]
    IN  /\ r.pc = "read"
        /\ call' = [call EXCEPT ![c] =
               [r EXCEPT !.saw = "error", !.pc = "thrown", !.result = "error",
                         !.error = MsgNetwork]]
        /\ UNCHANGED <<account, engineVars, poolVars, formVars, utilVars>>

\* getAccountInfo rejects: getOrCreateAssociatedTokenAccount logs it and goes on
\* to create, doesTokenAccountExist answers false, sendToken's handler ends.
AtaReadReject(c) ==
    LET r == call[c]
    IN  /\ r.pc = "read"
        /\ call' = [call EXCEPT ![c] =
               IF r.flow = "sendToken"
               THEN [r EXCEPT !.saw = "error", !.pc = "thrown", !.result = "error",
                              !.error = MsgNetwork]
               ELSE [r EXCEPT !.saw = IF r.flow = "mintToken" THEN "absent" ELSE "error",
                              !.instructions = Instructions(r.flow, FALSE),
                              !.pc = "send", !.attempt = 1]]
        /\ UNCHANGED <<account, engineVars, poolVars, formVars, utilVars>>

\* skipPreflight: false: the submission call simulates the transaction on the
\* ledger as it is, and hands it over when the simulation passes.
AtaSendResolve(c) ==
    LET r == call[c]
    IN  /\ r.pc = "send"
        /\ ~(HasCreate(r.instructions) /\ account.exists)
        /\ call' = [call EXCEPT ![c] =
               [r EXCEPT !.pc = "confirm", !.tx[r.attempt] = "inflight"]]
        /\ UNCHANGED <<account, engineVars, poolVars, formVars, utilVars>>

\* the simulation fails on the creation instruction: the submission call rejects
AtaSendReject(c) ==
    LET r == call[c]
    IN  /\ r.pc = "send"
        /\ HasCreate(r.instructions) /\ account.exists
        /\ \E m \in PreflightErrors : call' = [call EXCEPT ![c] = AfterError(r, m)]
        /\ UNCHANGED <<account, engineVars, poolVars, formVars, utilVars>>

\* The ledger processes a submitted transaction: its instructions run in order
\* and take effect together or not at all.
AtaLand(c) ==
    LET r == call[c]
    IN  \E a \in Slots :
            /\ r.tx[a] = "inflight"
            /\ IF HasCreate(r.instructions) /\ account.exists
               THEN /\ call' = [call EXCEPT ![c].tx[a] = "failed"]
                    /\ account' = account
               ELSE /\ call' = [call EXCEPT ![c].tx[a] = "ok"]
                    /\ account' = IF HasCreate(r.instructions)
                                  THEN [exists |-> TRUE,
                                        creations |-> account.creations + 1]
                                  ELSE account
            /\ UNCHANGED <<engineVars, poolVars, formVars, utilVars>>

\* the confirmation reports value.err == null
AtaConfirmOk(c) ==
    LET r == call[c]
    IN  /\ r.pc = "confirm"
        /\ r.tx[r.attempt] = "ok"
        /\ call' = [call EXCEPT ![c] =
               [r EXCEPT !.pc = "returned",
                         !.result = IF r.flow = "getOrCreate" THEN "address"
                                    ELSE "signature"]]
        /\ UNCHANGED <<account, engineVars, poolVars, formVars, utilVars>>

\* the confirmation reports an error payload:
\* new Error('Transaction confirmed but failed: ...')
AtaConfirmFailed(c) ==
    LET r == call[c]
    IN  /\ r.pc = "confirm"
        /\ r.tx[r.attempt] = "failed"
        /\ call' = [call EXCEPT ![c] =
               AfterError(r, MsgConfirmedButFailed(AccountExistsPayload))]
        /\ UNCHANGED <<account, engineVars, poolVars, formVars, utilVars>>

\* confirmTransaction reports the window lapsed: a transaction not processed by
\* now never is.  mintToken's polling swallows this error.
AtaConfirmExpired(c) ==
    LET r == call[c]
        r1 == IF r.tx[r.attempt] = "inflight"
              THEN [r EXCEPT !.tx[r.attempt] = "dropped"] ELSE r
    IN  /\ r.pc = "confirm"
        /\ r.flow # "mintToken"
        /\ call' = [call EXCEPT ![c] = AfterError(r1, MsgExpired)]
        /\ UNCHANGED <<account, engineVars, poolVars, formVars, utilVars>>

\* the confirmation timer fires; the transaction may still be processed
AtaTimeout(c) ==
    LET r == call[c]
    IN  /\ r.pc = "confirm"
        /\ call' = [call EXCEPT ![c] =
               AfterError(r, IF r.flow = "mintToken" THEN MsgTimedOut ELSE MsgTimeout)]
        /\ UNCHANGED <<account, engineVars, poolVars, formVars, utilVars>>

AtaNext ==
    \E c \in Callers :
        \/ AtaRead(c)
        \/ AtaReadReject(c)
        \/ AtaSendResolve(c)
        \/ AtaSendReject(c)
        \/ AtaLand(c)
        \/ AtaConfirmOk(c)
        \/ AtaConfirmFailed(c)
        \/ AtaConfirmExpired(c)
        \/ AtaTimeout(c)

AtaSpec == AtaInit /\ [][AtaNext]_vars

(***************************************************************************)
(* The calls of connection-helper.ts.  Its functions are synchronous up to *)
(* their return, so each call is one step.                                 *)
(***************************************************************************)
\* No engine call is running.
EngineIdle ==
    /\ engine = "helper"
    /\ maxRetries = 0
    /\ hasSigners = TRUE
    /\ pc = "loop"
    /\ attempt = 0
    /\ signature = 0
    /\ lastError = NoError
    /\ transaction = NewTransaction
    /\ win = NoWindow
    /\ result = NoResult
    /\ fetched = <<>>
    /\ submitted = <<>>
    /\ confirming = {}
    /\ timers = {}
    /\ outcome = [a \in Attempts |-> NoOutcome]
    /\ delays = <<>>
    /\ reached = {}
    /\ landed = {}
    /\ lapsed = {}
    /\ toasts = {}

PoolInit ==
    /\ hasWindow \in BOOLEAN
    /\ PoolLoaded
    /\ EngineIdle
    /\ AtaIdle
    /\ FormIdle
    /\ UtilIdle

\* The module's variables that initConnectionPool writes, and whether it threw.
PoolState ==
    [inited |-> connectionInitialized, pool |-> connectionPool, made |-> constructed,
     pending |-> timeouts, sched |-> scheduled, threw |-> FALSE]

\* Variant: the connectionInitialized flag is not looked at.
initConnectionPoolNoGuard(st, endpoint, size) ==
    IF ~hasWindow THEN st
    ELSE IF size > 0 /\ ~ValidEndpoint(endpoint)
    THEN [st EXCEPT !.inited = TRUE, !.threw = TRUE]
    ELSE LET new == [i \in 1..size |->
                        Conn(endpoint, "confirmed", Cardinality(st.made) + i)]
         IN  [st EXCEPT !.inited = TRUE,
                        !.pool = st.pool \o new,
                        !.made = st.made \cup {new[i] : i \in 1..size},
                        !.pending = Append(st.pending, endpoint),
                        !.sched = st.sched + 1]

\* initConnectionPool(endpoint, size): the flag is set before the connections
\* are constructed; a constructor that throws leaves the flag set, the pool
\* empty and no timer scheduled.
initConnectionPool(st, endpoint, size) ==
    IF ~hasWindow THEN st
    ELSE IF st.inited THEN st
    ELSE IF size > 0 /\ ~ValidEndpoint(endpoint)
    THEN [st EXCEPT !.inited = TRUE, !.threw = TRUE]
    ELSE LET new == [i \in 1..size |->
                        Conn(endpoint, "confirmed", Cardinality(st.made) + i)]
         IN  [st EXCEPT !.inited = TRUE,
                        !.pool = st.pool \o new,
                        !.made = st.made \cup {new[i] : i \in 1..size},
                        !.pending = Append(st.pending, endpoint),
                        !.sched = st.sched + 1]

\* Variant: preWarmConnection has no try/catch.
preWarmResultNoCatch(threw) == IF threw THEN "rejected" ELSE "true"

\* preWarmConnection: return true in the try block and in the catch block
preWarmResult(threw) == IF threw THEN "true" ELSE "true"

SetPool(st) ==
    /\ connectionInitialized' = st.inited
    /\ connectionPool' = st.pool
    /\ constructed' = st.made
    /\ timeouts' = st.pending
    /\ scheduled' = st.sched

NoteInit(endpoint, size) ==
    firstInit' = IF firstInit = NoInit
                 THEN [endpoint |-> endpoint, size |-> size] ELSE firstInit

\* initConnectionPool is called from outside
CallInitConnectionPool ==
    /\ poolCalls < MaxPoolCalls
    /\ \E e \in Endpoints, n \in Sizes :
          /\ SetPool(initConnectionPool(PoolState, e, n))
          /\ NoteInit(e, n)
    /\ poolCalls' = poolCalls + 1
    /\ UNCHANGED <<hasWindow, connectionCache, gets, warmed, engineVars, ataVars, formVars, utilVars>>

\* preWarmConnection is called from outside
CallPreWarmConnection ==
    /\ poolCalls < MaxPoolCalls
    /\ \E e \in Endpoints :
          LET st == initConnectionPool(PoolState, e, DefaultPoolSize)
          IN  /\ SetPool(st)
              /\ NoteInit(e, DefaultPoolSize)
              /\ warmed' = warmed \cup {preWarmResult(st.threw)}
    /\ poolCalls' = poolCalls + 1
    /\ UNCHANGED <<hasWindow, connectionCache, gets, engineVars, ataVars, formVars, utilVars>>

\* the setTimeout callback of initConnectionPool runs: preWarmConnection(endpoint)
TimeoutFire ==
    /\ timeouts # <<>>
    /\ LET e == Head(timeouts)
           st == initConnectionPool([PoolState EXCEPT !.pending = Tail(timeouts)],
                                    e, DefaultPoolSize)
       IN  /\ SetPool(st)
           /\ NoteInit(e, DefaultPoolSize)
           /\ warmed' = warmed \cup {preWarmResult(st.threw)}
    /\ UNCHANGED <<hasWindow, connectionCache, gets, poolCalls, engineVars, ataVars, formVars, utilVars>>

\* Variant: the cache is not looked up.
CacheHitNever(k) == FALSE

\* if (!connectionCache[cacheKey]) { ... }
CacheHit(k) == connectionCache[k] # NoConn

\* getCachedConnection(endpoint, commitment) is called; a call that throws is
\* noted as returning NoConn.
CallGetCachedConnection ==
    /\ poolCalls < MaxPoolCalls
    /\ \E e \in Endpoints, c \in Commitments :
          LET k == CacheKey(e, c)
              new == Conn(e, c, Cardinality(constructed) + 1)
          IN  IF Len(connectionPool) > 0
              THEN /\ gets' = gets \cup
                         {[endpoint |-> e, commitment |-> c, conn |-> connectionPool[1]]}
                   /\ UNCHANGED <<connectionCache, constructed>>
              ELSE IF CacheHit(k)
              THEN /\ gets' = gets \cup
                         {[endpoint |-> e, commitment |-> c, conn |-> connectionCache[k]]}
                   /\ UNCHANGED <<connectionCache, constructed>>
              ELSE IF ~ValidEndpoint(e)
              THEN /\ gets' = gets \cup {[endpoint |-> e, commitment |-> c, conn |-> NoConn]}
                   /\ UNCHANGED <<connectionCache, constructed>>
              ELSE /\ connectionCache' = [connectionCache EXCEPT ![k] = new]
                   /\ constructed' = constructed \cup {new}
                   /\ gets' = gets \cup {[endpoint |-> e, commitment |-> c, conn |-> new]}
    /\ poolCalls' = poolCalls + 1
    /\ UNCHANGED <<hasWindow, connectionInitialized, connectionPool, timeouts, firstInit,
                   scheduled, warmed, engineVars, ataVars, formVars, utilVars>>

PoolNext ==
    \/ CallInitConnectionPool
    \/ CallPreWarmConnection
    \/ TimeoutFire
    \/ CallGetCachedConnection

PoolSpec == PoolInit /\ [][PoolNext]_vars

(***************************************************************************)
(* The form handlers.                                                      *)
(***************************************************************************)
FormInit ==
    /\ handler \in Handlers
    /\ FormLoaded
    /\ EngineIdle
    /\ AtaIdle
    /\ PoolIdle
    /\ UtilIdle

HistoryRecord(status) == [id |-> FormSig, status |-> status, type |-> handler]

\* The submission call resolves.  createToken logs the transaction as a success
\* and ends; sendToken is inside sendTransactionWithRetry; mintToken starts
\* polling for the confirmation.
FormSubmit ==
    /\ hpc = "start"
    /\ ledgerTx' = "inflight"
    /\ IF handler = "create"
       THEN /\ history' = AddTransaction(history, HistoryRecord("success"))
            /\ report' = "success"
            /\ hpc' = "ended"
       ELSE /\ hpc' = IF handler = "send" THEN "engine" ELSE "poll"
            /\ UNCHANGED <<history, report>>
    /\ UNCHANGED <<handler, retries, confirmResult, elapsed, waits, observed, txSignature,
                   engineVars, ataVars, poolVars, utilVars>>

\* The submission call rejects: the handler's catch block.
FormSubmitReject ==
    /\ hpc = "start"
    /\ hpc' = "ended"
    /\ report' = "failure"
    /\ history' = IF handler = "create"
                  THEN AddTransaction(history,
                           [id |-> 0, status |-> "error", type |-> "create"])
                  ELSE history
    /\ UNCHANGED <<handler, retries, confirmResult, elapsed, waits, ledgerTx, observed,
                   txSignature, engineVars, ataVars, poolVars, utilVars>>

\* The ledger processes the transaction, with or without an error.
FormLand ==
    /\ ledgerTx = "inflight"
    /\ ledgerTx' \in {"ok", "failed"}
    /\ UNCHANGED <<handler, hpc, retries, confirmResult, elapsed, waits, observed,
                   txSignature, history, report, engineVars, ataVars, poolVars, utilVars>>

\* sendTransactionWithRetry returns the signature: the confirmation came with no
\* error payload.
FormEngineReturns ==
    /\ hpc = "engine"
    /\ ledgerTx = "ok"
    /\ observed' = "ok"
    /\ txSignature' = FormSig
    /\ history' = AddTransaction(history, HistoryRecord("success"))
    /\ report' = "success"
    /\ hpc' = "ended"
    /\ UNCHANGED <<handler, retries, confirmResult, elapsed, waits, ledgerTx,
                   engineVars, ataVars, poolVars, utilVars>>

\* sendTransactionWithRetry throws: catch (error) of sendToken
FormEngineThrows ==
    /\ hpc = "engine"
    /\ observed' \in (IF ledgerTx = "failed" THEN {"failed"} ELSE {}) \cup {"timedOut", "error"}
    /\ report' = "failure"
    /\ hpc' = "ended"
    /\ UNCHANGED <<handler, retries, confirmResult, elapsed, waits, ledgerTx, txSignature,
                   history, engineVars, ataVars, poolVars, utilVars>>

\* connection.confirmTransaction resolves: the loop ends and mintToken looks at
\* confirmationResult.value.err.
FormPollResolve ==
    /\ hpc = "poll"
    /\ ledgerTx \in {"ok", "failed"}
    /\ \E d \in CallDurationsMs : elapsed' = elapsed + d * TimeScale
    /\ hpc' = "ended"
    /\ IF ledgerTx = "ok"
       THEN /\ confirmResult' = "ok"
            /\ observed' = "ok"
            /\ txSignature' = FormSig
            /\ history' = AddTransaction(history, HistoryRecord("success"))
            /\ report' = "success"
       ELSE /\ confirmResult' = "InstructionError"
            /\ observed' = "failed"
            /\ txSignature' = MintCatch(MsgConfirmedButFailed("InstructionError")).txSignature
            /\ report' = MintCatch(MsgConfirmedButFailed("InstructionError")).report
            /\ history' = history
    /\ UNCHANGED <<handler, retries, waits, ledgerTx, engineVars, ataVars, poolVars, utilVars>>

\* connection.confirmTransaction throws: the error is logged, the delay is
\* computed, retries is incremented and the delay is awaited.
FormPollReject ==
    /\ hpc = "poll"
    /\ \E d \in CallDurationsMs : elapsed' = elapsed + d * TimeScale
    /\ waits' = Append(waits, PollDelay(retries))
    /\ retries' = retries + 1
    /\ hpc' = "wait"
    /\ UNCHANGED <<handler, confirmResult, ledgerTx, observed, txSignature, history, report,
                   engineVars, ataVars, poolVars, utilVars>>

\* Variant: the deadline is compared with the time before the delay.
FormWaitDoneLate ==
    /\ hpc = "wait"
    /\ elapsed' = elapsed + waits[Len(waits)]
    /\ IF elapsed < PollTimeoutMs * TimeScale
       THEN /\ hpc' = "poll"
            /\ UNCHANGED <<observed, txSignature, report>>
       ELSE /\ hpc' = "ended"
            /\ observed' = "timedOut"
            /\ txSignature' = MintCatch(MsgTimedOut).txSignature
            /\ report' = MintCatch(MsgTimedOut).report
    /\ UNCHANGED <<handler, retries, confirmResult, waits, ledgerTx, history,
                   engineVars, ataVars, poolVars, utilVars>>

\* The delay is over: the loop goes on while the deadline has not passed; after
\* it, confirmResult is null and the timeout error is thrown to mintToken.
FormWaitDone ==
    /\ hpc = "wait"
    /\ elapsed' = elapsed + waits[Len(waits)]
    /\ IF elapsed' < PollTimeoutMs * TimeScale
       THEN /\ hpc' = "poll"
            /\ UNCHANGED <<observed, txSignature, report>>
       ELSE /\ hpc' = "ended"
            /\ observed' = "timedOut"
            /\ txSignature' = MintCatch(MsgTimedOut).txSignature
            /\ report' = MintCatch(MsgTimedOut).report
    /\ UNCHANGED <<handler, retries, confirmResult, waits, ledgerTx, history,
                   engineVars, ataVars, poolVars, utilVars>>

FormNext ==
    \/ FormSubmit
    \/ FormSubmitReject
    \/ FormLand
    \/ FormEngineReturns
    \/ FormEngineThrows
    \/ FormPollResolve
    \/ FormPollReject
    \/ FormWaitDone

FormSpec == FormInit /\ [][FormNext]_vars

(***************************************************************************)
(* The calls of useTransactionStore.                                       *)
(***************************************************************************)
StoreInit ==
    /\ EngineIdle
    /\ AtaIdle
    /\ PoolIdle
    /\ FormIdle
    /\ UtilIdle

CallAddTransaction ==
    /\ nextId <= MaxAdds
    /\ history' = AddTransaction(history, StoreRecord(nextId))
    /\ nextId' = nextId + 1
    /\ UNCHANGED <<handler, hpc, retries, confirmResult, elapsed, waits, ledgerTx, observed,
                   txSignature, report, errArg, shown, engineVars, ataVars, poolVars>>

CallClearTransactions ==
    /\ history' = <<>>
    /\ UNCHANGED <<handler, hpc, retries, confirmResult, elapsed, waits, ledgerTx, observed,
                   txSignature, report, utilVars, engineVars, ataVars, poolVars>>

StoreNext ==
    \/ CallAddTransaction
    \/ CallClearTransactions

StoreSpec == StoreInit /\ [][StoreNext]_vars

(***************************************************************************)
(* One getErrorMessage call on each of the tested arguments.               *)
(***************************************************************************)
MessageInit ==
    /\ errArg \in ErrorArgs
    /\ shown = NotShown
    /\ nextId = 1
    /\ EngineIdle
    /\ AtaIdle
    /\ PoolIdle
    /\ FormIdle

CallGetErrorMessage ==
    /\ shown = NotShown
    /\ shown' = getErrorMessage(errArg)
    /\ UNCHANGED <<errArg, nextId, engineVars, ataVars, poolVars, formVars>>

MessageNext == CallGetErrorMessage

MessageSpec == MessageInit /\ [][MessageNext]_vars

(***************************************************************************)
(* Properties.                                                             *)
(***************************************************************************)
Finished == pc \in {"returned", "thrown"}

\* The submission calls made by attempt a.
SubmissionsOf(a) == {i \in 1..Len(submitted) : submitted[i].att = a}

\* The window getLatestBlockhash handed to attempt a (NoWindow: none).
WindowOf(a) ==
    IF \E i \in 1..Len(fetched) : fetched[i].att = a
    THEN (CHOOSE f \in {fetched[i] : i \in 1..Len(fetched)} : f.att = a).window
    ELSE NoWindow

\* A message the claims call a validity-window error.
ValidityWindowMsg(msg) ==
    \/ Includes(msg, <<"block", "height", "exceeded">>)
    \/ Includes(msg, <<"blockhash", "not", "found">>)
    \/ Includes(msg, <<"invalid", "blockhash">>)

\* C1: with maxRetries = N at most N submission calls are made, and whenever
\* attempt k+1 has started, attempt k has resolved (to an error or a timeout;
\* a success ends the call) and its timer is no longer pending.
C1_AtMostNSequentialAttempts ==
    /\ Len(submitted) <= maxRetries
    /\ attempt <= maxRetries
    /\ \A k \in 1..(attempt - 1) :
          /\ outcome[k].how \in {"error", "timeout"}
          /\ k \notin timers

\* C1 witness: the last of N >= 2 attempts is submitted after the others resolved.
C1_Witness ==
    /\ maxRetries >= 2
    /\ attempt = maxRetries
    /\ Len(submitted) = maxRetries
    /\ pc = "confirm"

C3_SignatureOnEveryExit ==
    (Finished /\ signature # 0) => result.signature = signature

\* C4: an 'already processed' answer of the ledger ends the call as a success
\* returning the signature, never as a thrown error.
C4_AlreadyProcessedIsSuccess ==
    \A a \in Attempts :
        (Finished /\ Includes(outcome[a].error.msg, <<"already", "been", "processed">>))
            => (result.kind = "returned" /\ result.signature = signature)

\* The state C5 starts from: attempt a failed with a validity-window error
\* while attempts remain.
C5_Failed(a) ==
    /\ attempt = a
    /\ a < maxRetries
    /\ outcome[a].how = "error"
    /\ ValidityWindowMsg(outcome[a].error.msg)

\* C5: after a validity-window error of attempt a < maxRetries the call has not
\* returned or thrown, and it eventually starts attempt a+1, whose blockhash
\* fetch is under way before anything of that attempt is signed or submitted.
C5_ExpiredLeadsToNextAttempt ==
    \A a \in 1..MaxRetriesBound :
        /\ [](C5_Failed(a) => pc \in {"backoff", "loop"})
        /\ C5_Failed(a) ~>
              (/\ attempt = a + 1
               /\ pc = "fetch"
               /\ WindowOf(a + 1) = NoWindow
               /\ SubmissionsOf(a + 1) = {})

\* C5 witness: attempt 2 is fetching its blockhash after attempt 1 failed with
\* 'invalid blockhash'.
C5_Witness ==
    /\ attempt = 2
    /\ pc = "fetch"
    /\ outcome[1].error.msg = MsgInvalidBlockhash

\* Every attempt up to n failed with a validity-window error.
AllExpired(n) ==
    \A k \in 1..n : outcome[k].how = "error" /\ ValidityWindowMsg(outcome[k].error.msg)

\* C6: while every attempt made has failed with a validity-window error, the
\* call goes on until attempt N = maxRetries and then throws the error caught
\* in attempt N itself.
C6_ExhaustedThrowsLastError ==
    (attempt >= 1 /\ AllExpired(attempt)) =>
        IF attempt < maxRetries
        THEN pc \in {"backoff", "loop"}
        ELSE /\ attempt = maxRetries
             /\ pc = "thrown"
             /\ result = Thrown(outcome[attempt].error)
             /\ result.error.att = maxRetries

\* C6 witness: N >= 2 attempts, each one expired, and the call has thrown.
C6_Witness ==
    /\ maxRetries >= 2
    /\ attempt = maxRetries
    /\ AllExpired(maxRetries)
    /\ pc = "thrown"

\* C7: at most one attempt's transaction is ever processed by the ledger, and
\* an attempt is submitted only when every earlier one can no longer be.
C7_AtMostOneLands ==
    /\ Cardinality(landed) <= 1
    /\ \A i \in 1..Len(submitted) :
          \A a \in 1..(submitted[i].att - 1) : a \notin reached \/ a \in lapsed

FreshWindows ==
    /\ \A i \in 1..Len(submitted) :
          LET s == submitted[i]
              w == WindowOf(s.att)
          IN  /\ w # NoWindow
              /\ \A a \in 1..(s.att - 1) : WindowOf(a) # w
              /\ s.tx.recentBlockhash = w.blockhash
              /\ s.tx.signedOver = w.blockhash
              /\ \A j \in 1..Len(submitted) :
                    j # i => SigOf(submitted[j].tx) # SigOf(s.tx)
    /\ \A c \in confirming :
          /\ c.blockhash = WindowOf(c.att).blockhash
          /\ c.lastValidBlockHeight = WindowOf(c.att).lastValidBlockHeight
          /\ c.signature = WindowOf(c.att).blockhash
    /\ Len(fetched) = Len(submitted)

C10_OnChainFailureIsTerminal ==
    \A a \in Attempts :
        outcome[a].conf \in OnChainErrors =>
            /\ attempt = a
            /\ pc = "thrown"
            /\ result.kind = "thrown"
            /\ result.error.msg = MsgConfirmedButFailed(outcome[a].conf)
            /\ result.error.att = a
            /\ Len(delays) = a - 1

\* C10 witness: attempt 1 of several was confirmed with an error payload.
C10_Witness ==
    /\ outcome[1].conf \in OnChainErrors
    /\ attempt < maxRetries

\* Attempt a ended with error e thrown to the caller at once: nothing of an
\* attempt a+1 exists and no backoff delay followed attempt a.
TerminalAt(a) ==
    /\ attempt = a
    /\ pc = "thrown"
    /\ result = Thrown(outcome[a].error)
    /\ Len(delays) = a - 1
    /\ Len(fetched) <= a
    /\ SubmissionsOf(a + 1) = {}

\* C11: an 'insufficient funds' error ends the call in the attempt it occurs
\* in (attempt 1 included): that error is thrown, with no backoff delay, no
\* further blockhash fetch and no further submission.
C11_InsufficientFundsIsTerminal ==
    \A a \in Attempts :
        Includes(outcome[a].error.msg, <<"insufficient", "funds">>) => TerminalAt(a)

\* C11 witness: attempt 1 of several failed with 'insufficient funds'.
C11_Witness ==
    /\ outcome[1].error.msg = MsgInsufficientFunds
    /\ maxRetries >= 2
    /\ Len(fetched) = 1
    /\ Len(submitted) = 1
    /\ delays = <<>>

\* C12: in sendTransactionWithRetry a user rejection thrown by
\* wallet.sendTransaction ends the call with that error and no other attempt,
\* whatever number of attempts remains.
C12_UserRejectionIsTerminal ==
    \A a \in Attempts :
        (engine = "utility" /\ Includes(outcome[a].error.msg, <<"rejected">>))
            => TerminalAt(a)

\* C12 witness: the user rejected attempt 2 of 3 (attempt 1 had expired).
C12_Witness ==
    /\ engine = "utility"
    /\ outcome[2].error.msg = MsgUserRejected
    /\ maxRetries > 2

\* C13: a 'Token Account not found' error ends the call with that error; it
\* is never retried.
C13_MissingTokenAccountIsTerminal ==
    \A a \in Attempts :
        Includes(outcome[a].error.msg, <<"Token", "Account", "not", "found">>)
            => TerminalAt(a)

\* C13 witness: attempt 1 of several failed with 'Token Account not found'.
C13_Witness ==
    /\ outcome[1].error.msg = MsgTokenAccountNotFound
    /\ attempt < maxRetries

\* C14: when every awaited call and timer settles, the call ends (returns or
\* throws) and never makes more than maxRetries attempts; an error of no known
\* cause ends it in the attempt it occurs in.
C14_Terminates ==
    /\ <>Finished
    /\ [](attempt <= maxRetries)
    /\ [](\A a \in Attempts : outcome[a].error.msg = MsgNetwork => TerminalAt(a))

\* C14 witness: an error of no known cause was thrown while attempts remained.
C14_Witness ==
    /\ pc = "thrown"
    /\ result.error.msg = MsgNetwork
    /\ attempt < maxRetries

\* The caller was handed one of the errors the ledger gives for creating an
\* account that exists.
LostRace(c) == call[c].error \in AccountExistsErrors

\* C15: when two getOrCreateAssociatedTokenAccount calls for the same (owner,
\* mint) run concurrently and both find the account absent, the account is
\* created at most once and the call whose creation loses the race returns the
\* address instead of ending in an error.
C15_ConcurrentCreationBothSucceed ==
    /\ account.creations <= 1
    /\ \A c, d \in Callers :
        (/\ c # d
         /\ call[c].flow = "getOrCreate" /\ call[d].flow = "getOrCreate"
         /\ call[c].saw = "absent" /\ call[d].saw = "absent"
         /\ LostRace(c))
        => call[c].result = "address"

\* C16: in getOrCreateAssociatedTokenAccount a creation that fails because the
\* account exists (a retry after a creation that landed unobserved included)
\* returns the address, and a creation that fails for another reason is thrown.
C16_AccountExistsIsSuccess ==
    \A c \in Callers :
        (call[c].flow = "getOrCreate" /\ call[c].error # <<>>)
        => /\ LostRace(c) => call[c].result = "address"
           /\ ~LostRace(c) => call[c].result = "error"

\* C17: when the existence read reports the account present, no creation
\* instruction is built and getOrCreateAssociatedTokenAccount submits nothing;
\* when it reports the account absent, the creation instruction is built, and in
\* sendToken and mintToken it comes before the transfer or mint instruction of
\* the same transaction.
C17_CreationOnlyWhenAbsentAndFirst ==
    \A c \in Callers :
        LET r == call[c]
        IN  /\ r.saw = "present" =>
                /\ ~HasCreate(r.instructions)
                /\ r.flow = "getOrCreate" =>
                       /\ r.instructions = <<>>
                       /\ r.attempt = 0
                       /\ \A a \in Slots : r.tx[a] = "none"
            /\ r.saw = "absent" =>
                /\ r.instructions # <<>> /\ r.instructions[1] = CreateIx
                /\ r.flow = "sendToken" => r.instructions = <<CreateIx, "transfer">>
                /\ r.flow = "mintToken" => r.instructions = <<CreateIx, "mintTo">>
            /\ \A a \in Slots : r.tx[a] # "none" => r.instructions # <<>>

C17_Witness ==
    \E c, d \in Callers :
        /\ call[c].flow = "sendToken" /\ call[c].saw = "absent"
        /\ call[c].tx[1] = "ok" /\ call[c].pc = "returned"
        /\ call[d].flow = "getOrCreate" /\ call[d].saw = "present"
        /\ call[d].pc = "returned"

\* C18: an attempt does not stay in the confirming phase for ever.  While it
\* is confirming its timer is pending; the timer alone (no fairness of the
\* confirmation) ends the phase; and an attempt that ended while its
\* confirmTransaction call had not settled ended as timed out, with the
\* 'Transaction confirmation timeout' error.
C18_ConfirmingEndsByTimeout ==
    \A a \in Attempts :
        /\ []((pc = "confirm" /\ attempt = a) => a \in timers)
        /\ (pc = "confirm" /\ attempt = a) ~> (outcome[a].how # "none")
        /\ []((outcome[a].how # "none" /\ \E c \in confirming : c.att = a)
                => (outcome[a].how = "timeout" /\ outcome[a].error.msg = MsgTimeout))

\* C18 witness: attempt 1 timed out and its confirmTransaction call is still
\* unsettled.
C18_Witness ==
    /\ outcome[1].how = "timeout"
    /\ \E c \in confirming : c.att = 1
    /\ 1 \notin landed

\* C19: once the call has returned or thrown, no confirmation timer it started
\* is pending; and a timer is pending only for the attempt being confirmed.
C19_NoTimerLeftPending ==
    /\ Finished => timers = {}
    /\ \A a \in timers : pc = "confirm" /\ a = attempt

\* C19 witness: the call has thrown the error confirmTransaction threw in
\* attempt 2, after a timer had been started in each attempt.
C19_Witness ==
    /\ pc = "thrown"
    /\ attempt = 2
    /\ outcome[2].error.msg = MsgNetwork
    /\ 2 \in reached

\* C20: the race of the confirmation and the timer gives each attempt one
\* outcome, that of the first event; an event after it changes neither the
\* attempt's outcome nor the call's result and causes no further attempt,
\* fetch, submission or delay.
C20_OneOutcomePerAttempt ==
    /\ [][\A a \in Attempts : outcome[a].how # "none" => outcome'[a] = outcome[a]]_vars
    /\ [][Finished => /\ pc' = pc
                      /\ result' = result
                      /\ attempt' = attempt
                      /\ lastError' = lastError
                      /\ fetched' = fetched
                      /\ submitted' = submitted
                      /\ delays' = delays]_vars

\* C20 witness: the call threw the timeout of attempt 1, and the late
\* confirmation of that attempt has arrived since.
C20_Witness ==
    /\ pc = "thrown"
    /\ outcome[1].how = "timeout"
    /\ 1 \in landed
    /\ confirming = {}


\* C21: when an attempt's confirmation comes back with no error payload the
\* engine returns the signature of that attempt's own submission, not an earlier
\* one's, and starts no further attempt.
C21_ReturnsConfirmingAttemptsSignature ==
    \A a \in Attempts :
        outcome[a].how = "success" =>
            /\ attempt = a
            /\ pc = "returned"
            /\ \E i \in SubmissionsOf(a) : result = Returned(SigOf(submitted[i].tx))
            /\ \A i \in 1..Len(submitted) :
                  submitted[i].att < a => result.signature # SigOf(submitted[i].tx)
            /\ SubmissionsOf(a + 1) = {}
            /\ Len(fetched) = a
            /\ Len(delays) = a - 1

\* C21 witness: the second attempt was confirmed after the first one expired.
C21_Witness ==
    /\ outcome[2].how = "success"
    /\ outcome[1].error.msg = MsgExpired
    /\ pc = "returned"
    /\ maxRetries > 2

\* min(1000 * 2^(a-1), 8000), written out
ExpectedBackoff(a) ==
    IF a = 1 THEN 1000 ELSE IF a = 2 THEN 2000 ELSE IF a = 3 THEN 4000 ELSE 8000

\* C22: the delay awaited before attempt a+1 is min(1000 * 2^(a-1), 8000) ms for
\* every a >= 1; the delays do not decrease and never exceed 8000 ms.
C22_BackoffDelays ==
    \A a \in 1..Len(delays) :
        /\ delays[a] = ExpectedBackoff(a)
        /\ delays[a] <= 8000
        /\ a > 1 => delays[a - 1] <= delays[a]

\* C22 witness: five delays were awaited, the last two at the cap.
C22_Witness ==
    /\ Len(delays) = 5
    /\ delays[3] = 4000
    /\ delays[4] = 8000
    /\ delays[5] = 8000
    /\ pc = "confirm"

\* C24: in every attempt the window is fetched, then the transaction is signed
\* over it, then submitted, then confirmed: nothing is submitted without a window
\* fetched and a signature made in that attempt, and no confirmation is awaited
\* for an attempt that has not submitted and recorded its signature.
C24_PhaseOrder ==
    /\ [](\A i \in 1..Len(submitted) :
            LET s == submitted[i]
            IN  /\ WindowOf(s.att) # NoWindow
                /\ s.tx.recentBlockhash = WindowOf(s.att).blockhash
                /\ s.tx.signedOver = WindowOf(s.att).blockhash)
    /\ [](\A c \in confirming :
            /\ SubmissionsOf(c.att) # {}
            /\ c.att \in reached
            /\ c.signature # 0
            /\ \E i \in SubmissionsOf(c.att) : c.signature = SigOf(submitted[i].tx))
    /\ [](pc = "confirm" =>
            /\ SubmissionsOf(attempt) # {}
            /\ \E i \in SubmissionsOf(attempt) : signature = SigOf(submitted[i].tx))
    /\ [][/\ (pc' = "fetch" /\ pc # "fetch") => pc = "loop"
          /\ (pc' = "send" /\ pc # "send") => pc = "fetch"
          /\ (pc' = "confirm" /\ pc # "confirm") => pc = "send"
          /\ Len(submitted') > Len(submitted) => Len(fetched') > Len(fetched)]_vars

\* C24 witness: the third attempt is being confirmed.
C24_Witness ==
    /\ pc = "confirm"
    /\ attempt = 3
    /\ Len(submitted) = 3
    /\ engine = "helper"

\* C30: the two engines decide alike.  Whatever the engine, the attempts made,
\* the submissions and the end of the call are the same function of maxRetries
\* and of the attempts' outcomes: an attempt's error is retried exactly when it
\* is a blockhash error with attempts left, under both engines' catch blocks; a
\* confirmed attempt's signature is returned; otherwise that attempt's error is
\* thrown.
C30_EnginesDecideAlike ==
    /\ \A a \in Attempts :
         outcome[a].how \in {"error", "timeout"} =>
            LET m == outcome[a].error.msg
                retried == IsBlockhashError(m) /\ a < maxRetries
            IN  /\ (CatchBranchHelper(m, a, maxRetries) = "retry") = retried
                /\ (CatchBranchUtility(m, a, maxRetries) = "retry") = retried
                /\ retried = (Len(delays) >= a)
                /\ ~retried => /\ attempt = a
                               /\ pc = "thrown"
                               /\ result = Thrown(outcome[a].error)
    /\ \A a \in Attempts :
         outcome[a].how = "success" =>
            attempt = a /\ pc = "returned" /\ result = Returned(signature)
    /\ Len(delays) \in {attempt - 1, attempt}
    /\ Len(submitted) <= attempt
    /\ (pc = "thrown" /\ attempt = 0) =>
            maxRetries = 0 /\ result = Thrown(Err(MsgUnknown, 0, 0))

\* C30 witness: the utility engine gave up on the third attempt's expiry.
C30_Witness ==
    /\ engine = "utility"
    /\ maxRetries = 3
    /\ attempt = 3
    /\ pc = "thrown"
    /\ outcome[3].error.msg = MsgExpired
    /\ Len(submitted) = 3



\* C25: getCachedConnection(endpoint) returns a connection to the endpoint asked
\* for, and calls for the same endpoint return the same connection, whatever
\* initConnectionPool and getCachedConnection calls came before (a pool that was
\* initialised for another endpoint included).
C25_ConnectionToRequestedEndpoint ==
    /\ \A g \in gets :
          ValidEndpoint(g.endpoint) => g.conn.endpoint = g.endpoint
    /\ \A g, h \in gets :
          (g.endpoint = h.endpoint /\ ValidEndpoint(g.endpoint)) => g.conn = h.conn

\* C26: whatever the calls made, the pool holds at most as many connections as
\* the first initConnectionPool call asked for (2 by default), initialisations
\* after the first leave the pool as it is, and at most one connection is made
\* for each (endpoint, commitment) key of the fallback cache.
C26_PoolAndCacheBounded ==
    /\ [](Len(connectionPool) <= (IF firstInit = NoInit THEN 0 ELSE firstInit.size))
    /\ [][firstInit # NoInit => connectionPool' = connectionPool]_vars
    /\ [](\A x, y \in constructed \ {connectionPool[i] : i \in 1..Len(connectionPool)} :
            (x.endpoint = y.endpoint /\ x.commitment = y.commitment) => x = y)
    /\ [](\A k \in CacheKeys :
            connectionCache[k] # NoConn =>
                CacheKey(connectionCache[k].endpoint, connectionCache[k].commitment) = k)

\* C26 witness: a connection was cached before the pool was created with two
\* connections, and calls were made afterwards.
C26_Witness ==
    /\ Len(connectionPool) = 2
    /\ \E k \in CacheKeys : connectionCache[k] # NoConn
    /\ timeouts = <<>>
    /\ poolCalls = MaxPoolCalls
    /\ Cardinality(constructed) = 3

\* C27: the warm-up timer is set once when the pool is created; its callback's
\* call of initConnectionPool adds no connection and sets no further timer; and
\* every preWarmConnection call resolves true.
C27_WarmUpOnceAndHarmless ==
    /\ [](scheduled = (IF connectionInitialized /\ firstInit # NoInit
                          /\ (firstInit.size = 0 \/ ValidEndpoint(firstInit.endpoint))
                       THEN 1 ELSE 0))
    /\ [](Len(timeouts) <= 1)
    /\ [](warmed \subseteq {"true"})
    /\ [][timeouts' # timeouts /\ timeouts # <<>> =>
             /\ timeouts' = <<>>
             /\ connectionPool' = connectionPool
             /\ constructed' = constructed
             /\ scheduled' = scheduled
             /\ "true" \in warmed']_vars

\* C27 witness: the timer of a pool of two has run and its preWarmConnection
\* call has resolved.
C27_Witness ==
    /\ scheduled = 1
    /\ timeouts = <<>>
    /\ Len(connectionPool) = 2
    /\ warmed = {"true"}
    /\ poolCalls >= 1



\* min(1000 * 1.5^n, 10000) ms in 1/64 ms, written out
ExpectedPollDelay(n) ==
    IF n = 0 THEN 64000 ELSE IF n = 1 THEN 96000 ELSE IF n = 2 THEN 144000
    ELSE IF n = 3 THEN 216000 ELSE IF n = 4 THEN 324000 ELSE IF n = 5 THEN 486000
    ELSE 640000

\* C23: the wait before the n-th re-poll of
\* confirmTransactionWithExponentialBackoff (n = 0, 1, 2, ...) is
\* min(1000 * 1.5^n, 10000) ms: it starts at 1000 ms, does not decrease and never
\* exceeds 10000 ms.
C23_PollDelays ==
    \A i \in 1..Len(waits) :
        /\ waits[i] = ExpectedPollDelay(i - 1)
        /\ i = 1 => waits[i] = 1000 * TimeScale
        /\ i > 1 => waits[i - 1] <= waits[i]
        /\ waits[i] <= 10000 * TimeScale

\* C23 witness: eight waits were made, the last two at the cap.
C23_Witness ==
    /\ Len(waits) = 8
    /\ waits[6] = 486000
    /\ waits[7] = 640000
    /\ waits[8] = 640000
    /\ hpc = "poll"

\* C28: in mintToken, when the transaction was submitted and the polling ended at
\* its deadline without a confirmation result, the signature is still stored in
\* txSignature, the user gets the 'may have succeeded' warning and the outcome is
\* not reported as a failure.
C28_TimedOutMintKeepsSignature ==
    (handler = "mint" /\ hpc = "ended" /\ observed = "timedOut") =>
        /\ txSignature = FormSig
        /\ report = "warning"

\* C29: in the create, send and mint flows a history record with status
\* 'success' is added only for a transaction whose confirmation was observed
\* with no error payload, never for one that was only submitted or whose
\* confirmation failed or timed out.
C29_SuccessOnlyWhenConfirmed ==
    \A i \in 1..Len(history) :
        history[i].status = "success" => observed = "ok" /\ ledgerTx = "ok"



\* C31: a backoff delay is awaited only after a validity-window failure of an
\* attempt a < maxRetries, and attempt a+1 follows it: none before attempt 1,
\* none after the last attempt, after a success or after a terminal error, so a
\* call that made k attempts awaited k-1 delays.
C31_DelaysOnlyBetweenAttempts ==
    /\ \A a \in 1..Len(delays) :
          /\ a < maxRetries
          /\ a <= attempt
          /\ outcome[a].how = "error"
          /\ ValidityWindowMsg(outcome[a].error.msg)
    /\ (attempt > 0 /\ Len(delays) = attempt) =>
          /\ pc \in {"backoff", "loop"}
          /\ LoopCond(attempt, maxRetries)
    /\ Len(delays) # attempt => Len(delays) = attempt - 1
    /\ Finished => Len(delays) = (IF attempt = 0 THEN 0 ELSE attempt - 1)
    /\ \A a \in Attempts :
          (outcome[a].how \in {"success", "timeout"}
             \/ (outcome[a].how = "error" /\ ~ValidityWindowMsg(outcome[a].error.msg)))
          => Len(delays) = a - 1

\* C31 witness: three attempts were made with two delays, and the third one's
\* expiry ended the call without a delay.
C31_Witness ==
    /\ pc = "thrown"
    /\ attempt = 3
    /\ maxRetries = 3
    /\ Len(delays) = 2
    /\ outcome[3].error.msg = MsgExpired

\* Values of maxRetries that are not positive.
NonPositive == (0 - 2)..0

\* C36: called with maxRetries <= 0, both engines fetch no blockhash, submit
\* nothing and throw the generic error 'Transaction failed for unknown reason'.
C36_NoRetriesThrowsUnknown ==
    /\ \A n \in NonPositive : ~LoopCond(0, n)
    /\ maxRetries \in NonPositive =>
          /\ fetched = <<>>
          /\ submitted = <<>>
          /\ attempt = 0
          /\ pc \in {"loop", "thrown"}
          /\ pc = "thrown" => result = Thrown(Err(MsgUnknown, 0, 0))
          /\ result.kind # "returned"

\* C36 witness: a call with maxRetries = 0 has thrown.
C36_Witness ==
    /\ maxRetries = 0
    /\ pc = "thrown"
    /\ result.error.msg = MsgUnknown
    /\ engine = "utility"



\* C35: when sendAndConfirmTransaction or sendTransactionWithRetry returns or
\* throws, every loading toast it created (processing, approve, confirming,
\* retrying) has been dismissed.
C35_NoLoadingToastOutlivesCall ==
    Finished => toasts = {}


\* C37: whenever the message of the error holds 'user rejected',
\* getErrorMessage returns 'You declined the transaction. Please try again.'.
C37_UserRejectedIsDeclined ==
    (shown # NotShown /\ ~errArg.isNull /\ Includes(errArg.message, <<"user", "rejected">>))
        => shown = Text("You declined the transaction. Please try again.")

\* The 'user rejected' branch of getErrorMessage is never taken.
DeclinedTextNeverReturned ==
    shown # Text("You declined the transaction. Please try again.")

AddStep == nextId' = nextId + 1

\* C34: the history never holds more than 50 entries; addTransaction puts
\* the new entry first and every retained entry one place further, so that
\* the order is kept and only the oldest entries are dropped, none while
\* there are fewer than 50; clearTransactions leaves the history empty.
C34_HistoryKeepsNewestFifty ==
    /\ [](Len(history) <= 50)
    /\ [][ /\ AddStep =>
                /\ Head(history') = StoreRecord(nextId)
                /\ Len(history') = Min(Len(history) + 1, 50)
                /\ \A i \in 2..Len(history') : history'[i] = history[i - 1]
           /\ ~AddStep => history' = <<>> ]_vars

\* The 51st entry was added: the first one was dropped.
C34_Witness ==
    /\ nextId = 52
    /\ Len(history) = 50
    /\ history[1].id = 51
    /\ history[50].id = 2

PollDeadline == PollTimeoutMs * TimeScale

\* confirmTransactionWithExponentialBackoff was called and has returned or thrown.
PollingEnded == handler = "mint" /\ hpc = "ended" /\ ledgerTx # "none"

\* C32: a poll is only ever running when it was started before the deadline
\* and no earlier poll returned; the first poll that returns ends the function
\* with its result, also when it returns after the deadline; a poll that
\* throws is followed by a wait, and the wait by another poll if the deadline
\* has not passed and by the timed-out error if it has; the timed-out error
\* is thrown exactly when the function ends without a result, which happens
\* only after the deadline.
C32_PollUntilResultOrDeadline ==
    /\ []((handler = "mint" /\ hpc = "poll")
            => elapsed < PollDeadline /\ confirmResult = "null")
    /\ [](PollingEnded =>
            /\ observed = "timedOut" <=> confirmResult = "null"
            /\ observed = "timedOut" => elapsed >= PollDeadline
            /\ confirmResult = "ok" <=> observed = "ok"
            /\ confirmResult = "InstructionError" <=> observed = "failed")
    /\ [][handler = "mint" =>
            /\ (hpc = "poll" /\ hpc' = "ended") =>
                    /\ confirmResult' # "null"
                    /\ retries' = retries
                    /\ waits' = waits
            /\ (hpc = "poll" /\ hpc' # "ended" /\ elapsed' # elapsed) =>
                    /\ hpc' = "wait"
                    /\ confirmResult' = "null"
                    /\ retries' = retries + 1
                    /\ Len(waits') = Len(waits) + 1
                    /\ report' = report
            /\ (hpc = "wait" /\ hpc' # "wait") =>
                    /\ elapsed' = elapsed + waits[Len(waits)]
                    /\ hpc' = IF elapsed' < PollDeadline THEN "poll" ELSE "ended"
            /\ hpc = "ended" => hpc' = "ended" ]_vars

\* Three polls threw and the third wait ended after the deadline.
C32_Witness ==
    /\ PollingEnded
    /\ observed = "timedOut"
    /\ retries = 3
    /\ elapsed >= PollDeadline

\* A poll started before the deadline returned its result after it.
C32_LateResult ==
    /\ PollingEnded
    /\ confirmResult = "ok"
    /\ retries > 0
    /\ elapsed > PollDeadline

ReadSwallowingFlows == {"getOrCreate", "mintToken"}

\* C33: in getOrCreateAssociatedTokenAccount and in mintToken the existence
\* read never ends the call with an error: after it the call either skips the
\* creation, having read the account as present on a ledger that has it, or
\* goes on to submit, as its first attempt, a transaction that begins with
\* the creation instruction; a read that failed always takes the second way.
C33_FailedReadMeansAbsent ==
    [][\A c \in Callers :
        (call[c].pc = "read" /\ call'[c] # call[c]
            /\ call[c].flow \in ReadSwallowingFlows) =>
            /\ call'[c].pc # "thrown"
            /\ call'[c].result # "error"
            /\ call'[c].saw # "present" =>
                    /\ call'[c].pc = "send"
                    /\ call'[c].attempt = 1
                    /\ call'[c].instructions # <<>>
                    /\ Head(call'[c].instructions) = CreateIx
            /\ call'[c].saw = "present" =>
                    /\ account.exists
                    /\ ~HasCreate(call'[c].instructions)
            /\ call'[c].saw \in {"present", "absent", "error"}
            /\ call[c].flow = "mintToken" => call'[c].saw # "error" ]_vars

\* Both reads failed on a ledger that has the account, which no call created:
\* getOrCreateAssociatedTokenAccount and mintToken are about to submit a
\* creation.
C33_Witness ==
    \E c, d \in Callers :
        /\ account.exists /\ account.creations = 0
        /\ call[c].flow = "getOrCreate" /\ call[c].saw = "error"
        /\ call[c].pc = "send" /\ HasCreate(call[c].instructions)
        /\ call[d].flow = "mintToken" /\ call[d].saw = "absent"
        /\ call[d].pc = "send" /\ call[d].instructions = <<CreateIx, "mintTo">>

=============================================================================
